---- MODULE Spec2Model ----
(***************************************************************************)
(* Yundera SMTP handler: the SMTP session callbacks (Auth, Mail, Rcpt,     *)
(* Data, Reset), the label sanitizer and the MIME body walker of           *)
(* src/unnamed/part_000.                                                   *)
(*                                                                         *)
(* A Go string is a sequence of characters, each character a TLA+ string   *)
(* and the empty string the empty sequence.  Two characters outside ASCII  *)
(* stand for the non-ASCII input a client may send: KELVIN (U+212A, whose  *)
(* lowercase is the ASCII k) and E_ACUTE (U+00C9, lowercase U+00E9); the   *)
(* double quote and the backslash are written DQUOTE and BACKSLASH,       *)
(* the backtick BACKTICK.                                                   *)
(***************************************************************************)
EXTENDS Integers, Sequences, FiniteSets, TLC

VARIABLES
    s,      \* the SMTPSession: [appName, from, to, authUser]
    last,   \* the last callback the transport made: its inputs and results
    obs,    \* observer of the callback history (what the claims speak of)
    arg,    \* input of the pure function under check
    ret,    \* <<>> before the call, <<result>> after it
    srv,    \* the server: its backend, the sessions made, each connection's session
    mobs,   \* observer of the callbacks of every connection
    run     \* the Data calls of one session taken in steps, and their events

vars == <<s, last, obs, arg, ret, srv, mobs, run>>

(***************************************************************************)
(* Strings                                                                 *)
(***************************************************************************)
Upper == <<"A", "B", "C", "D", "E", "F", "G", "H", "I", "J", "K", "L", "M",
           "N", "O", "P", "Q", "R", "S", "T", "U", "V", "W", "X", "Y", "Z">>
Lower == <<"a", "b", "c", "d", "e", "f", "g", "h", "i", "j", "k", "l", "m",
           "n", "o", "p", "q", "r", "s", "t", "u", "v", "w", "x", "y", "z">>
Digits == <<"0", "1", "2", "3", "4", "5", "6", "7", "8", "9">>

Range(f) == {f[i] : i \in DOMAIN f}

Min(a, b) == IF a < b THEN a ELSE b

\* unicode.ToLower of one character
ToLowerChar(c) ==
    IF \E i \in DOMAIN Upper : Upper[i] = c
    THEN Lower[CHOOSE i \in DOMAIN Upper : Upper[i] = c]
    ELSE IF c = "KELVIN" THEN "k"
    ELSE IF c = "E_ACUTE" THEN "e_acute"
    ELSE c

\* strings.ToLower
ToLower(str) == [i \in DOMAIN str |-> ToLowerChar(str[i])]

\* UTF-8 width of one character
Utf8Width(c) ==
    IF c = "KELVIN" THEN 3
    ELSE IF c \in {"E_ACUTE", "e_acute"} THEN 2
    ELSE 1

RECURSIVE ByteLen(_)
\* len(str): the length in bytes
ByteLen(str) ==
    IF str = <<>> THEN 0 ELSE Utf8Width(Head(str)) + ByteLen(Tail(str))

RECURSIVE BytePrefix(_, _)
\* str[:n]: the characters that lie wholly in the first n bytes
BytePrefix(str, n) ==
    IF str = <<>> \/ Utf8Width(Head(str)) > n
    THEN <<>>
    ELSE <<Head(str)>> \o BytePrefix(Tail(str), n - Utf8Width(Head(str)))

\* the characters the regular expression [^a-z0-9-] does not match
AllowedChars == Range(Lower) \cup Range(Digits) \cup {"-"}

\* one character matched by [^a-z0-9-]
MatchesDisallowed(c) == c \notin AllowedChars

\* reg.ReplaceAllString(name, "")
StripDisallowed(name) == SelectSeq(name, LAMBDA c : ~MatchesDisallowed(c))

\* the literal 20 of sanitizeAppName
MaxLabelLen == 20

DefaultLabel == <<"a", "p", "p">>

sanitizeAppName_NoTruncate(name) ==
    LET stripped == StripDisallowed(ToLower(name))
    IN  IF stripped = <<>> THEN DefaultLabel ELSE stripped
sanitizeAppName_TruncateFirst(name) ==
    LET lowered == ToLower(name)
        cut == IF ByteLen(lowered) > MaxLabelLen
               THEN BytePrefix(lowered, MaxLabelLen) ELSE lowered
        stripped == StripDisallowed(cut)
    IN  IF stripped = <<>> THEN DefaultLabel ELSE stripped
sanitizeAppName(name) ==
    LET lowered == ToLower(name)
        stripped == StripDisallowed(lowered)
        cut == IF ByteLen(stripped) > MaxLabelLen
               THEN BytePrefix(stripped, MaxLabelLen) ELSE stripped
    IN  IF cut = <<>> THEN DefaultLabel ELSE cut

(***************************************************************************)
(* Bytes, base64 and substring replacement                                 *)
(***************************************************************************)
Ascii ==
    <<" ", "!", "DQUOTE", "#", "$", "%", "&", "'", "(", ")", "*", "+", ",", "-",
    ".", "/", "0", "1", "2", "3", "4", "5", "6", "7", "8", "9", ":", ";",
    "<", "=", ">", "?", "@", "A", "B", "C", "D", "E", "F", "G", "H", "I",
    "J", "K", "L", "M", "N", "O", "P", "Q", "R", "S", "T", "U", "V", "W",
    "X", "Y", "Z", "[", "BACKSLASH", "]", "^", "_", "BACKTICK", "a", "b", "c", "d", "e",
    "f", "g", "h", "i", "j", "k", "l", "m", "n", "o", "p", "q", "r", "s",
    "t", "u", "v", "w", "x", "y", "z", "{", "|", "}", "~">>

\* the UTF-8 bytes of one character
Utf8Bytes(c) ==
    IF c = "\n" THEN <<10>>
    ELSE IF c = "KELVIN" THEN <<226, 132, 170>>
    ELSE IF c = "E_ACUTE" THEN <<195, 137>>
    ELSE IF c = "e_acute" THEN <<195, 169>>
    ELSE <<31 + (CHOOSE i \in DOMAIN Ascii : Ascii[i] = c)>>

RECURSIVE Bytes(_)
\* []byte(str)
Bytes(str) ==
    IF str = <<>> THEN <<>> ELSE Utf8Bytes(Head(str)) \o Bytes(Tail(str))

Base64Alphabet == Upper \o Lower \o Digits \o <<"+", "/">>

B64(n) == Base64Alphabet[n + 1]

RECURSIVE Base64Encode(_)
\* base64.StdEncoding.EncodeToString
Base64Encode(b) ==
    IF Len(b) = 0 THEN <<>>
    ELSE IF Len(b) = 1
    THEN <<B64(b[1] \div 4), B64((b[1] % 4) * 16), "=", "=">>
    ELSE IF Len(b) = 2
    THEN <<B64(b[1] \div 4), B64((b[1] % 4) * 16 + b[2] \div 16),
           B64((b[2] % 16) * 4), "=">>
    ELSE <<B64(b[1] \div 4), B64((b[1] % 4) * 16 + b[2] \div 16),
           B64((b[2] % 16) * 4 + b[3] \div 64), B64(b[3] % 64)>>
         \o Base64Encode(SubSeq(b, 4, Len(b)))

\* strings.HasPrefix
HasPrefix(str, prefix) ==
    /\ Len(str) >= Len(prefix)
    /\ SubSeq(str, 1, Len(prefix)) = prefix

RECURSIVE ReplaceAll(_, _, _)
\* strings.ReplaceAll for a non-empty old: the non-overlapping occurrences,
\* left to right
ReplaceAll(str, old, new) ==
    IF Len(str) < Len(old) THEN str
    ELSE IF HasPrefix(str, old)
    THEN new \o ReplaceAll(SubSeq(str, Len(old) + 1, Len(str)), old, new)
    ELSE <<Head(str)>> \o ReplaceAll(Tail(str), old, new)

RECURSIVE TrimLeft(_, _)
TrimLeft(str, cutset) ==
    IF str # <<>> /\ Head(str) \in cutset THEN TrimLeft(Tail(str), cutset)
    ELSE str

RECURSIVE TrimRight(_, _)
TrimRight(str, cutset) ==
    IF str # <<>> /\ str[Len(str)] \in cutset
    THEN TrimRight(SubSeq(str, 1, Len(str) - 1), cutset)
    ELSE str

\* strings.Trim(str, cutset)
Trim(str, cutset) == TrimRight(TrimLeft(str, cutset), cutset)

WhiteSpace == {" ", "\n", "\t", "\r"}

\* strings.TrimSpace
TrimSpace(str) == Trim(str, WhiteSpace)

S_multipart == <<"m", "u", "l", "t", "i", "p", "a", "r", "t", "/">>
S_image == <<"i", "m", "a", "g", "e", "/">>
S_attachment == <<"a", "t", "t", "a", "c", "h", "m", "e", "n", "t">>
S_textPlain == <<"t", "e", "x", "t", "/", "p", "l", "a", "i", "n">>
S_textHTML == <<"t", "e", "x", "t", "/", "h", "t", "m", "l">>
S_cid == <<"c", "i", "d", ":">>
S_data == <<"d", "a", "t", "a", ":">>
S_base64 == <<";", "b", "a", "s", "e", "6", "4", ",">>
S_NoSubject == <<"N", "o", " ", "S", "u", "b", "j", "e", "c", "t">>

(***************************************************************************)
(* The MIME walker (parseEmail, extractBodyParts)                          *)
(*                                                                         *)
(* An entity is what message.Read / NextPart hand to the walker:           *)
(*   ct, ctErr   the media type of the Content-Type header (empty when the *)
(*               header is absent) and whether the header is malformed     *)
(*   cid, disp   the Content-Id and Content-Disposition headers (empty     *)
(*               when absent)                                              *)
(*   body, readErr   what io.ReadAll(entity.Body) returns                  *)
(*   kids        what the NextPart calls on a multipart entity return, in  *)
(*               document order, before io.EOF                             *)
(*   nextErr     as a kid: NextPart returned an error (not io.EOF) in      *)
(*               place of this part                                        *)
(*   mrNil       MultipartReader() returns nil                             *)
(* Go ranges over the inlineImages map in an unspecified order, so the     *)
(* walker's result is a set: one result for every order.                   *)
(***************************************************************************)
\* entity.Header.ContentType() of go-message: text/plain when the header is
\* absent, an error (and an empty media type) when it is malformed
HeaderContentType(entity) ==
    IF entity.ctErr THEN [mediaType |-> <<>>, err |-> TRUE]
    ELSE IF entity.ct = <<>> THEN [mediaType |-> S_textPlain, err |-> FALSE]
    ELSE [mediaType |-> entity.ct, err |-> FALSE]

\* fmt.Sprintf("data:%s;base64,%s", partMediaType, base64(body))
DataURI(mediaType, body) ==
    S_data \o mediaType \o S_base64 \o Base64Encode(Bytes(body))

\* inlineImages[contentID] = dataURI
MapPut(m, k, v) == [x \in DOMAIN m \cup {k} |-> IF x = k THEN v ELSE m[x]]

EmptyMap == [x \in {} |-> <<>>]

RECURSIVE Orders(_)
\* the orders in which range may visit the keys
Orders(keys) ==
    IF keys = {} THEN {<<>>}
    ELSE UNION {{<<k>> \o o : o \in Orders(keys \ {k})} : k \in keys}

RECURSIVE RewriteInOrder(_, _, _)
RewriteInOrder(html, images, order) ==
    IF order = <<>> THEN html
    ELSE RewriteInOrder(ReplaceAll(html, S_cid \o Head(order), images[Head(order)]),
                        images, Tail(order))

\* the loop "for contentID, dataURI := range inlineImages": every result
\* some order gives
RewriteCids(html, images) ==
    {RewriteInOrder(html, images, o) : o \in Orders(DOMAIN images)}

\* the first branch of the part loop: an image with a Content-Id
IsInlineImage(part) ==
    /\ HasPrefix(HeaderContentType(part).mediaType, S_image)
    /\ part.cid # <<>>

\* the second branch: no Content-Disposition, or one that is not an attachment
IsWalked(part) ==
    part.disp = <<>> \/ ~HasPrefix(part.disp, S_attachment)

\* the image branch's body
PutInlineImage(acc, part) ==
    IF part.readErr THEN acc
    ELSE [acc EXCEPT !.images =
            MapPut(@, Trim(part.cid, {"<", ">"}),
                   DataURI(HeaderContentType(part).mediaType, part.body))]

MergePart_Concat(acc, r) ==
    [acc EXCEPT !.text = @ \o r.text,
                !.html = IF r.html # <<>> THEN r.html ELSE @]
\* the merge of one part's result into the accumulated text and html
MergePart(acc, r) ==
    [acc EXCEPT !.text = IF r.text # <<>> /\ @ = <<>> THEN r.text ELSE @,
                !.html = IF r.html # <<>> THEN r.html ELSE @]

RECURSIVE extractBodyParts(_)

\* one iteration of the part loop: the accumulators it may leave
StepPart(acc, part) ==
    IF IsInlineImage(part) THEN {PutInlineImage(acc, part)}
    ELSE IF IsWalked(part)
    THEN {MergePart(acc, r) : r \in extractBodyParts(part)}
    ELSE {acc}

RECURSIVE PartLoop_SkipsFailedPart(_, _, _)
PartLoop_SkipsFailedPart(entity, i, accs) ==
    IF i > Len(entity.kids) THEN accs
    ELSE IF entity.kids[i].nextErr THEN PartLoop_SkipsFailedPart(entity, i + 1, accs)
    ELSE PartLoop_SkipsFailedPart(entity, i + 1,
                  UNION {StepPart(acc, entity.kids[i]) : acc \in accs})

RECURSIVE PartLoop(_, _, _)
\* the part loop from the i-th NextPart call on
PartLoop(entity, i, accs) ==
    IF i > Len(entity.kids) \/ entity.kids[i].nextErr THEN accs
    ELSE PartLoop(entity, i + 1,
                  UNION {StepPart(acc, entity.kids[i]) : acc \in accs})

\* the rewriting that ends extractBodyParts
Finish(acc) ==
    IF acc.html # <<>> /\ DOMAIN acc.images # {}
    THEN {[text |-> acc.text, html |-> h] : h \in RewriteCids(acc.html, acc.images)}
    ELSE {[text |-> acc.text, html |-> acc.html]}

EmptyAcc == [text |-> <<>>, html |-> <<>>, images |-> EmptyMap]

extractBodyParts_OtherAsHtml(entity) ==
    LET ctype == HeaderContentType(entity)
    IN  IF ctype.err THEN {[text |-> entity.body, html |-> <<>>]}
        ELSE IF HasPrefix(ctype.mediaType, S_multipart)
        THEN IF entity.mrNil THEN {[text |-> <<>>, html |-> <<>>]}
             ELSE UNION {Finish(acc) : acc \in PartLoop(entity, 1, {EmptyAcc})}
        ELSE IF ctype.mediaType = S_textPlain
        THEN {[text |-> IF entity.readErr THEN <<>> ELSE entity.body,
               html |-> <<>>]}
        ELSE {[text |-> <<>>,
               html |-> IF entity.readErr THEN <<>> ELSE entity.body]}
\* extractBodyParts(entity): the (text, html) pairs it may return
extractBodyParts(entity) ==
    LET ctype == HeaderContentType(entity)
    IN  IF ctype.err THEN {[text |-> entity.body, html |-> <<>>]}
        ELSE IF HasPrefix(ctype.mediaType, S_multipart)
        THEN IF entity.mrNil THEN {[text |-> <<>>, html |-> <<>>]}
             ELSE UNION {Finish(acc) : acc \in PartLoop(entity, 1, {EmptyAcc})}
        ELSE IF ctype.mediaType = S_textPlain
        THEN {[text |-> IF entity.readErr THEN <<>> ELSE entity.body,
               html |-> <<>>]}
        ELSE IF ctype.mediaType = S_textHTML
        THEN {[text |-> <<>>,
               html |-> IF entity.readErr THEN <<>> ELSE entity.body]}
        ELSE {[text |-> IF entity.readErr THEN <<>> ELSE entity.body,
               html |-> <<>>]}

Normalize_NoFallback(subject, r) ==
    [subject |-> subject, text |-> TrimSpace(r.text), html |-> TrimSpace(r.html)]
\* the end of parseEmail: html stands in for an empty text, both are trimmed
Normalize(subject, r) ==
    [subject |-> subject,
     text |-> TrimSpace(IF r.text = <<>> /\ r.html # <<>> THEN r.html ELSE r.text),
     html |-> TrimSpace(r.html)]

parseEmail_FallbackTrimmed(msg) ==
    IF msg.parseErr
    THEN {[subject |-> S_NoSubject, text |-> TrimSpace(msg.raw), html |-> <<>>]}
    ELSE {Normalize(IF msg.subject # <<>> THEN msg.subject ELSE S_NoSubject, r) :
            r \in extractBodyParts(msg.entity)}
\* parseEmail(data): msg is data with what message.Read makes of it
\* (parseErr, or the entity and its Subject header)
parseEmail(msg) ==
    IF msg.parseErr
    THEN {[subject |-> S_NoSubject, text |-> msg.raw, html |-> <<>>]}
    ELSE {Normalize(IF msg.subject # <<>> THEN msg.subject ELSE S_NoSubject, r) :
            r \in extractBodyParts(msg.entity)}

(***************************************************************************)
(* The session (SMTPSession and its callbacks)                             *)
(*                                                                         *)
(* A body stream r is [size, errAt, msg]: the underlying reader gives size *)
(* bytes and then io.EOF, or, when errAt >= 0, errAt bytes and then an     *)
(* error; msg is what message.Read makes of the bytes Data reads.          *)
(* An error value is "nil" or names the failure.                           *)
(***************************************************************************)
MaxEmailSize == 10 * 1024 * 1024

\* http.StatusOK
StatusOK == 200

\* the position at which a body stream fails, for one that never fails
NoErrAt == -1

\* NewSession: the zero SMTPSession
NewSession == [appName |-> <<>>, from |-> <<>>, to |-> <<>>, authUser |-> <<>>]

\* the credentials callback of Auth
Auth(sess, username) ==
    [sess EXCEPT !.authUser = username, !.appName = sanitizeAppName(username)]

Mail(sess, from) == [sess EXCEPT !.from = from]

\* Rcpt: every address is accepted and appended
Rcpt(sess, to) == [sess EXCEPT !.to = Append(@, to)]

Reset_KeepsRecipients(sess) == [sess EXCEPT !.from = <<>>]
Reset_ClearsLabel(sess) ==
    [sess EXCEPT !.from = <<>>, !.to = <<>>, !.appName = <<>>, !.authUser = <<>>]
Reset(sess) == [sess EXCEPT !.from = <<>>, !.to = <<>>]

\* io.ReadAll(io.LimitReader(r, limit)): the number of bytes read and the
\* error.  The LimitReader answers io.EOF once limit bytes are read and does
\* not ask the underlying reader again.
ReadAllLimited(r, limit) ==
    IF r.errAt # NoErrAt /\ r.errAt < limit
    THEN [n |-> r.errAt, err |-> "read"]
    ELSE [n |-> Min(r.size, limit), err |-> "nil"]

RECURSIVE Split(_, _)
\* strings.Split(str, sep) for a separator of one character
Split(str, sep) ==
    IF \A i \in DOMAIN str : str[i] # sep THEN <<str>>
    ELSE LET i == CHOOSE j \in DOMAIN str :
                        str[j] = sep /\ \A k \in 1..(j - 1) : str[k] # sep
         IN  <<SubSeq(str, 1, i - 1)>> \o Split(SubSeq(str, i + 1, Len(str)), sep)

NoRecipients_NotExactlyOne(sess) == Len(sess.to) # 1
\* len(s.to) == 0
NoRecipients(sess) == Len(sess.to) = 0

RecipientEmail_Last(sess) == sess.to[Len(sess.to)]
\* recipientEmail := s.to[0]
RecipientEmail(sess) == sess.to[1]

DetermineAppName_SenderFirst(sess) ==
    IF sess.from # <<>> THEN sanitizeAppName(Split(sess.from, "@")[1])
    ELSE IF sess.appName # <<>> THEN sess.appName
    ELSE DefaultLabel
\* "Determine app name from authentication or sender"
DetermineAppName(sess) ==
    LET fromSender ==
            IF sess.appName = <<>> /\ sess.from # <<>>
               /\ Len(Split(sess.from, "@")) > 0
            THEN sanitizeAppName(Split(sess.from, "@")[1])
            ELSE sess.appName
    IN  IF fromSender = <<>> THEN DefaultLabel ELSE fromSender

forwardToAPI_AnyStatus(req, api) ==
    IF api.kind = "marshalErr" THEN [err |-> "marshal", sent |-> <<>>]
    ELSE IF api.kind = "requestErr" THEN [err |-> "request", sent |-> <<>>]
    ELSE IF api.kind = "netErr" THEN [err |-> "send", sent |-> <<req>>]
    ELSE [err |-> "nil", sent |-> <<req>>]
\* forwardToAPI: the error it returns and the HTTP requests it sent; api is
\* what json.Marshal, http.NewRequest and client.Do meet
forwardToAPI(req, api) ==
    IF api.kind = "marshalErr" THEN [err |-> "marshal", sent |-> <<>>]
    ELSE IF api.kind = "requestErr" THEN [err |-> "request", sent |-> <<>>]
    ELSE IF api.kind = "netErr" THEN [err |-> "send", sent |-> <<req>>]
    ELSE IF api.status # StatusOK THEN [err |-> "status", sent |-> <<req>>]
    ELSE [err |-> "nil", sent |-> <<req>>]

DataResult_ClearsEnvelope(sess, err, calls, sent) ==
    [s |-> Reset(sess), err |-> err, calls |-> calls, sent |-> sent]
\* the result of a Data call: the session, the error, the forwardToAPI calls
\* (their requests) and the HTTP requests sent
DataResult(sess, err, calls, sent) ==
    [s |-> sess, err |-> err, calls |-> calls, sent |-> sent]

\* Data from "Get first recipient" on, for one result of parseEmail
Deliver(sess, mail, api) ==
    IF NoRecipients(sess) THEN DataResult(sess, "no recipients", <<>>, <<>>)
    ELSE LET req == [to |-> RecipientEmail(sess), subject |-> mail.subject,
                     text |-> mail.text, html |-> mail.html,
                     appName |-> DetermineAppName(sess)]
             fwd == forwardToAPI(req, api)
         IN  DataResult(sess, fwd.err, <<req>>, fwd.sent)

\* Data(r): the results it may have
Data(sess, r, api) ==
    LET read == ReadAllLimited(r, MaxEmailSize)
    IN  IF read.err # "nil" THEN {DataResult(sess, read.err, <<>>, <<>>)}
        ELSE {Deliver(sess, mail, api) : mail \in parseEmail(r.msg)}

(***************************************************************************)
(* Inputs of the sanitizer                                                 *)
(***************************************************************************)
MaxNameLen == 3

NameAlphabet == {"M", "y", "1", "-", "_", "!", "@", "KELVIN"}

RECURSIVE StringsUpTo(_, _)
\* every string over alphabet of length at most n
StringsUpTo(alphabet, n) ==
    IF n = 0 THEN {<<>>}
    ELSE LET shorter == StringsUpTo(alphabet, n - 1)
         IN  shorter \cup {<<c>> \o t : c \in alphabet, t \in shorter}

NameMyApp == <<"M", "y", "A", "p", "p", "_", "1", "2", "3", "!">>
NameTwenty == <<"a", "a", "a", "a", "a", "a", "a", "a", "a", "a",
                "a", "a", "a", "a", "a", "a", "a", "a", "a", "a">>
NameTwentyOne == <<"a", "b", "c", "d", "e", "f", "g", "h", "i", "j", "-",
                   "0", "1", "2", "3", "4", "5", "6", "7", "8", "9">>
NameLongMixed == <<"A", "_", "b", "!", "c", "-", "d", "_", "e", "0", "f",
                   "1", "g", "2", "h", "3", "i", "4", "j", "5", "k", "6",
                   "l", "7", "m", "8", "n", "9">>
NameAccented == <<"E_ACUTE", "E_ACUTE", "E_ACUTE", "E_ACUTE", "E_ACUTE",
                  "E_ACUTE", "E_ACUTE", "E_ACUTE", "E_ACUTE", "E_ACUTE",
                  "x", "y", "z">>

Names ==
    StringsUpTo(NameAlphabet, MaxNameLen)
        \cup {NameMyApp, NameTwenty, NameTwentyOne, NameLongMixed, NameAccented}

(***************************************************************************)
(* Inputs of the walker: every entity tree of at most MaxNodes entities    *)
(* over the leaf parts below.                                              *)
(***************************************************************************)
MaxNodes == 4

MultipartMixed == S_multipart \o <<"m", "i", "x", "e", "d">>
ImagePng == S_image \o <<"p", "n", "g">>
ImageGif == S_image \o <<"g", "i", "f">>
DispAttachment == S_attachment \o <<";", " ", "f", "=", "a">>

Part(ct, cid, disp, body) ==
    [ct |-> ct, ctErr |-> FALSE, cid |-> cid, disp |-> disp, body |-> body,
     readErr |-> FALSE, kids |-> <<>>, nextErr |-> FALSE, mrNil |-> FALSE]

Multipart(kids) ==
    [ct |-> MultipartMixed, ctErr |-> FALSE, cid |-> <<>>, disp |-> <<>>,
     body |-> <<>>, readErr |-> FALSE, kids |-> kids, nextErr |-> FALSE,
     mrNil |-> FALSE]

CidA == <<"<", "a", ">">>
CidAB == <<"<", "a", "b", ">">>

TextHello == Part(S_textPlain, <<>>, <<>>, <<"H", "e", "l", "l", "o">>)
TextBye == Part(<<>>, <<>>, <<>>, <<" ", "B", "y", "e", "\n">>)
HtmlRefA == Part(S_textHTML, <<>>, <<>>, <<"<">> \o S_cid \o <<"a", ">">>)
HtmlRefAB == Part(S_textHTML, <<>>, <<>>, <<"[">> \o S_cid \o <<"a", "b", "]">>)
ImageA == Part(ImagePng, CidA, <<>>, <<"x">>)
ImageAB == Part(ImageGif, CidAB, <<"i", "n", "l", "i", "n", "e">>, <<"G", "I", "F">>)
ImageAttached == Part(ImagePng, CidA, DispAttachment, <<"a", "t">>)
TextAttached == Part(S_textPlain, <<>>, DispAttachment, <<"l", "o", "g">>)
ImageNoCid == Part(ImagePng, <<>>, <<>>, <<"p", "n", "g">>)
BadContentType == [Part(<<>>, <<>>, <<>>, <<"r", "a", "w">>) EXCEPT !.ctErr = TRUE]
HtmlUnreadable == [Part(S_textHTML, <<>>, <<>>, <<"<">>) EXCEPT !.readErr = TRUE]
\* a malformed Content-Type, and the body read fails after the bytes ra
BadTypeUnreadable ==
    [Part(<<>>, <<>>, <<>>, <<"r", "a">>) EXCEPT !.ctErr = TRUE, !.readErr = TRUE]

\* the NextPart call for this part fails
PartError == [Part(<<>>, <<>>, <<>>, <<>>) EXCEPT !.nextErr = TRUE]

\* A tree is drawn as a shape, a leaf part's name or a multipart of shapes,
\* and EntityOf gives the entity it stands for.
LeafNames ==
    {"TextHello", "TextBye", "HtmlRefA", "HtmlRefAB", "ImageA", "ImageAB",
     "ImageAttached", "TextAttached", "ImageNoCid", "BadContentType",
     "HtmlUnreadable", "BadTypeUnreadable", "PartError"}

LeafNamed(name) ==
    CASE name = "TextHello" -> TextHello
      [] name = "TextBye" -> TextBye
      [] name = "HtmlRefA" -> HtmlRefA
      [] name = "HtmlRefAB" -> HtmlRefAB
      [] name = "ImageA" -> ImageA
      [] name = "ImageAB" -> ImageAB
      [] name = "ImageAttached" -> ImageAttached
      [] name = "TextAttached" -> TextAttached
      [] name = "ImageNoCid" -> ImageNoCid
      [] name = "BadContentType" -> BadContentType
      [] name = "HtmlUnreadable" -> HtmlUnreadable
      [] name = "BadTypeUnreadable" -> BadTypeUnreadable
      [] name = "PartError" -> PartError

LeafShape(name) == [part |-> name, kids |-> <<>>]

MultipartShape(kids) == [part |-> "multipart", kids |-> kids]

RECURSIVE EntityOf(_)
EntityOf(shape) ==
    IF shape.part = "multipart"
    THEN Multipart([i \in DOMAIN shape.kids |-> EntityOf(shape.kids[i])])
    ELSE LeafNamed(shape.part)

RECURSIVE NodeCount(_)
NodeCount(shape) ==
    IF shape.kids = <<>> THEN 1
    ELSE 1 + NodeCount(Head(shape.kids))
           + (NodeCount(MultipartShape(Tail(shape.kids))) - 1)

RECURSIVE SpineDepth(_)
\* the number of multiparts below the root on the path of last kids
SpineDepth(shape) ==
    IF shape.part # "multipart" THEN -1
    ELSE IF shape.kids = <<>> THEN 0
    ELSE 1 + SpineDepth(shape.kids[Len(shape.kids)])

RECURSIVE Attach(_, _, _)
\* shape with one more part, the last kid of the multipart d levels down the
\* path of last kids: the parts are added in document order
Attach(shape, d, new) ==
    IF d = 0 THEN [shape EXCEPT !.kids = Append(@, new)]
    ELSE [shape EXCEPT !.kids[Len(shape.kids)] = Attach(@, d - 1, new)]

\* what a multipart may get as its next part
NewParts == {LeafShape(name) : name \in LeafNames} \cup {MultipartShape(<<>>)}

SubjectHi == <<"H", "i">>

RawMime == <<"S", ":", "H", "i">>
RawGarbage == <<"%", "%", "\n">>

\* what message.Read makes of the raw bytes: an error, or the root entity
\* and its Subject header
Parsed(subject, entity) ==
    [raw |-> RawMime, parseErr |-> FALSE, subject |-> subject, entity |-> entity]

Unparsable == [raw |-> RawGarbage, parseErr |-> TRUE]

\* a message as drawn: unparsable, or a subject and a shape; the shapes of
\* more than one entity grow from these by AddPart
RootMessages ==
    {[subject |-> SubjectHi, shape |-> t] : t \in NewParts \ {LeafShape("PartError")}}
        \cup {[subject |-> <<>>, shape |-> LeafShape("TextHello")],
              [subject |-> <<>>, shape |-> LeafShape("unparsable")]}

MessageOf(m) ==
    IF m.shape.part = "unparsable" THEN Unparsable
    ELSE Parsed(m.subject, EntityOf(m.shape))

\* ret before the call; <<r>> once the function has returned r
NotCalled == <<>>

(***************************************************************************)
(* Inputs of the session                                                   *)
(***************************************************************************)
MaxRcpt == 2

Usernames == {NameMyApp, <<>>}

SenderBob == <<"B", "o", "b", "@", "x", ".", "y">>
SenderNoLocal == <<"@", "x">>
SenderBare == <<"r", "o", "o", "t">>

Senders == {<<>>, SenderBob, SenderNoLocal, SenderBare}

RcptA == <<"a", "@", "x">>
RcptB == <<"b", "@", "x">>

Recipients == {RcptA, RcptB}

SessionMessages == {Parsed(SubjectHi, TextHello), Unparsable}

StreamSizes == {1, MaxEmailSize, MaxEmailSize + 1}

BodyStreams ==
    {[size |-> n, errAt |-> e, msg |-> m] :
        n \in StreamSizes, e \in {NoErrAt, 0, MaxEmailSize}, m \in SessionMessages}

\* an error stands in place of a byte of the stream
Streams == {r \in BodyStreams : r.errAt < r.size}

\* netErr: client.Do fails (no connection, or the 30 s timeout)
ApiOutcomes ==
    {[kind |-> k, status |-> 0] : k \in {"marshalErr", "requestErr", "netErr"}}
        \cup {[kind |-> "response", status |-> c] : c \in {StatusOK, 500}}

(***************************************************************************)
(* The server: one SMTPBackend, and for every connection the SMTPSession   *)
(* that NewSession made for it.  Sessions live on the heap, a sequence     *)
(* whose indices are the addresses; a connection holds the address of its  *)
(* session, NoSession before NewSession has run for it.                    *)
(***************************************************************************)
Conns == {"c1", "c2"}

\* nil
NoSession == 0

\* NewSMTPBackend(orchestratorURL, jwtToken)
NewSMTPBackend == [orchestratorURL |-> "url", jwtToken |-> "jwt"]

ServerStart ==
    [backend |-> NewSMTPBackend, heap |-> <<>>, conn |-> [c \in Conns |-> NoSession]]

AllocSession_Shared(heap) == 1
\* &SMTPSession{...}: the address of a new object
AllocSession(heap) == Len(heap) + 1

\* NewSession(c): the connection gets a session of its own
ConnNewSession(server, c) ==
    LET a == AllocSession(server.heap)
    IN  [server EXCEPT
            !.heap = IF a > Len(@) THEN Append(@, NewSession)
                     ELSE [@ EXCEPT ![a] = NewSession],
            !.conn[c] = a]

\* the session of connection c
SessionOf(server, c) == server.heap[server.conn[c]]

\* a callback on connection c: the receiver is the session c points to
WithSession(server, c, sess) == [server EXCEPT !.heap[server.conn[c]] = sess]

\* per connection: Auth has run and its username, the envelope-from of the
\* last Mail since the last Reset, <<to>> for the first Rcpt since the
\* connection was opened or Reset; and the last callback made
NoConnObs == [authed |-> FALSE, authName |-> <<>>, from |-> <<>>, firstRcpt |-> <<>>]

MultiCall(c, op, err, calls) == [conn |-> c, op |-> op, err |-> err, calls |-> calls]

NoMultiObs ==
    [hist |-> [c \in Conns |-> NoConnObs], call |-> MultiCall("none", "none", "nil", <<>>)]

(***************************************************************************)
(* Data in steps.  run.pc is idle between callbacks and forwarding while   *)
(* Data is inside forwardToAPI; run.k counts the Data calls begun;         *)
(* run.inflight holds the Data calls whose HTTP exchange has started and   *)
(* not ended; run.log lists the events [ev, id] in the order they happen:  *)
(* begin (Data is called), deliver (the exchange with the API ends),       *)
(* return (Data returns after forwardToAPI), reject (Data returns without  *)
(* calling forwardToAPI).                                                  *)
(***************************************************************************)
NoRun == [pc |-> "idle", k |-> 0, inflight |-> {}, log |-> <<>>]

Event(ev, id) == [ev |-> ev, id |-> id]

ForwardReturned_Async(r) == TRUE
\* err = s.forwardToAPI(...): the call returns when client.Do has returned
ForwardReturned(r) == r.k \notin r.inflight

(***************************************************************************)
(* The callbacks as the transport makes them, in any order, on one session *)
(***************************************************************************)
\* the record of a callback
Call(op, in, err, calls, sent) ==
    [op |-> op, in |-> in, err |-> err, calls |-> calls, sent |-> sent]

NoCall == Call("none", <<>>, "nil", <<>>, <<>>)

\* authed, authName: Auth has run, and the username of its last run
\* firstRcpt: <<to>> for the first Rcpt since the session was made or Reset
\* resets: the Resets since the last Auth, counted up to 2
\* recovery: 1 after a Mail that follows a failed Data, 2 after a Rcpt that
\*           follows that Mail, 3 after a Data that follows that Rcpt, else 0
NoObs ==
    [authed |-> FALSE, authName |-> <<>>, firstRcpt |-> <<>>, resets |-> 0,
     recovery |-> 0]

Open == last.op # "Logout"

Init ==
    /\ s = NewSession
    /\ last = NoCall
    /\ obs = NoObs
    /\ arg = <<>>
    /\ ret = NotCalled
    /\ srv = ServerStart
    /\ mobs = NoMultiObs
    /\ run = NoRun

CallAuth ==
    /\ Open
    /\ \E username \in Usernames :
        /\ s' = Auth(s, username)
        /\ last' = Call("Auth", username, "nil", <<>>, <<>>)
        /\ obs' = [obs EXCEPT !.authed = TRUE, !.authName = username,
                              !.resets = 0, !.recovery = 0]
    /\ UNCHANGED <<srv, mobs, run, arg, ret>>

CallMail ==
    /\ Open
    /\ \E from \in Senders :
        /\ s' = Mail(s, from)
        /\ last' = Call("Mail", from, "nil", <<>>, <<>>)
    /\ obs' = [obs EXCEPT !.recovery =
                    IF last.op = "Data" /\ last.err # "nil" THEN 1 ELSE 0]
    /\ UNCHANGED <<srv, mobs, run, arg, ret>>

CallRcpt ==
    /\ Open
    /\ Len(s.to) < MaxRcpt
    /\ \E to \in Recipients :
        /\ s' = Rcpt(s, to)
        /\ last' = Call("Rcpt", to, "nil", <<>>, <<>>)
        /\ obs' = [obs EXCEPT !.firstRcpt = IF @ = <<>> THEN <<to>> ELSE @,
                              !.recovery = IF @ = 1 THEN 2 ELSE 0]
    /\ UNCHANGED <<srv, mobs, run, arg, ret>>

CallData ==
    /\ Open
    /\ \E r \in Streams, api \in ApiOutcomes :
        \E res \in Data(s, r, api) :
            /\ s' = res.s
            /\ last' = Call("Data", [r |-> r, api |-> api], res.err, res.calls, res.sent)
    /\ obs' = [obs EXCEPT !.recovery = IF @ = 2 THEN 3 ELSE 0]
    /\ UNCHANGED <<srv, mobs, run, arg, ret>>

CallReset ==
    /\ Open
    /\ s' = Reset(s)
    /\ last' = Call("Reset", <<>>, "nil", <<>>, <<>>)
    /\ obs' = [obs EXCEPT !.firstRcpt = <<>>, !.recovery = 0,
                          !.resets = IF @ < 2 THEN @ + 1 ELSE @]
    /\ UNCHANGED <<srv, mobs, run, arg, ret>>

\* Logout returns nil and the connection is closed
CallLogout ==
    /\ Open
    /\ last' = Call("Logout", <<>>, "nil", <<>>, <<>>)
    /\ UNCHANGED <<srv, mobs, run, s, obs, arg, ret>>

Next == CallAuth \/ CallMail \/ CallRcpt \/ CallData \/ CallReset \/ CallLogout

Spec == Init /\ [][Next]_vars

(***************************************************************************)
(* sanitizeAppName on its own: the input is drawn by Init.                 *)
(***************************************************************************)
InitSanitize ==
    /\ s = NewSession
    /\ last = NoCall
    /\ obs = NoObs
    /\ arg \in Names
    /\ ret = NotCalled
    /\ srv = ServerStart
    /\ mobs = NoMultiObs
    /\ run = NoRun

CallSanitize ==
    /\ ret = NotCalled
    /\ ret' = <<sanitizeAppName(arg)>>
    /\ UNCHANGED <<srv, mobs, run, s, last, obs, arg>>

NextSanitize == CallSanitize

SpecSanitize == InitSanitize /\ [][NextSanitize]_vars

(***************************************************************************)
(* parseEmail on its own, on every message of at most MaxNodes entities.   *)
(***************************************************************************)
InitExtract ==
    /\ s = NewSession
    /\ last = NoCall
    /\ obs = NoObs
    /\ arg \in RootMessages
    /\ ret = NotCalled
    /\ srv = ServerStart
    /\ mobs = NoMultiObs
    /\ run = NoRun

CallParseEmail ==
    /\ ret = NotCalled
    /\ \E r \in parseEmail(MessageOf(arg)) : ret' = <<r>>
    /\ UNCHANGED <<srv, mobs, run, s, last, obs, arg>>

\* the message gets one more part
AddPart ==
    /\ ret = NotCalled
    /\ NodeCount(arg.shape) < MaxNodes
    /\ \E d \in 0..SpineDepth(arg.shape), new \in NewParts :
            arg' = [arg EXCEPT !.shape = Attach(@, d, new)]
    /\ UNCHANGED <<srv, mobs, run, s, last, obs, ret>>

NextExtract == AddPart \/ CallParseEmail

SpecExtract == InitExtract /\ [][NextExtract]_vars

(***************************************************************************)
(* extractBodyParts and parseEmail, each on its own, on the same messages: *)
(* the result of extractBodyParts has no subject field.                    *)
(***************************************************************************)
CallExtractBodyParts ==
    /\ ret = NotCalled
    /\ ~MessageOf(arg).parseErr
    /\ \E r \in extractBodyParts(MessageOf(arg).entity) : ret' = <<r>>
    /\ UNCHANGED <<srv, mobs, run, s, last, obs, arg>>

NextWalk == AddPart \/ CallExtractBodyParts \/ CallParseEmail

SpecWalk == InitExtract /\ [][NextWalk]_vars

(***************************************************************************)
(* Several connections: the transport runs one goroutine per connection,   *)
(* so the callbacks of the connections interleave in any order.            *)
(***************************************************************************)
MultiSenders == {SenderBob, SenderBare}

MultiStreams == {[size |-> 1, errAt |-> NoErrAt, msg |-> Parsed(SubjectHi, TextHello)]}

MultiApiOutcomes == {[kind |-> "response", status |-> c] : c \in {StatusOK, 500}}

InitMulti ==
    /\ s = NewSession
    /\ last = NoCall
    /\ obs = NoObs
    /\ arg = <<>>
    /\ ret = NotCalled
    /\ srv = ServerStart
    /\ mobs = NoMultiObs
    /\ run = NoRun

Connected(c) == srv.conn[c] # NoSession

ConnOpen(c) ==
    /\ ~Connected(c)
    /\ srv' = ConnNewSession(srv, c)
    /\ mobs' = [mobs EXCEPT !.call = MultiCall(c, "NewSession", "nil", <<>>)]
    /\ UNCHANGED <<s, last, obs, arg, ret, run>>

ConnAuth(c) ==
    /\ Connected(c)
    /\ \E username \in Usernames :
        /\ srv' = WithSession(srv, c, Auth(SessionOf(srv, c), username))
        /\ mobs' = [mobs EXCEPT !.hist[c].authed = TRUE,
                                !.hist[c].authName = username,
                                !.call = MultiCall(c, "Auth", "nil", <<>>)]
    /\ UNCHANGED <<s, last, obs, arg, ret, run>>

ConnMail(c) ==
    /\ Connected(c)
    /\ \E from \in MultiSenders :
        /\ srv' = WithSession(srv, c, Mail(SessionOf(srv, c), from))
        /\ mobs' = [mobs EXCEPT !.hist[c].from = from,
                                !.call = MultiCall(c, "Mail", "nil", <<>>)]
    /\ UNCHANGED <<s, last, obs, arg, ret, run>>

ConnRcpt(c) ==
    /\ Connected(c)
    /\ Len(SessionOf(srv, c).to) < MaxRcpt
    /\ \E to \in Recipients :
        /\ srv' = WithSession(srv, c, Rcpt(SessionOf(srv, c), to))
        /\ mobs' = [mobs EXCEPT !.hist[c].firstRcpt = IF @ = <<>> THEN <<to>> ELSE @,
                                !.call = MultiCall(c, "Rcpt", "nil", <<>>)]
    /\ UNCHANGED <<s, last, obs, arg, ret, run>>

ConnData(c) ==
    /\ Connected(c)
    /\ \E r \in MultiStreams, api \in MultiApiOutcomes :
        \E res \in Data(SessionOf(srv, c), r, api) :
            /\ srv' = WithSession(srv, c, res.s)
            /\ mobs' = [mobs EXCEPT !.call = MultiCall(c, "Data", res.err, res.calls)]
    /\ UNCHANGED <<s, last, obs, arg, ret, run>>

ConnReset(c) ==
    /\ Connected(c)
    /\ srv' = WithSession(srv, c, Reset(SessionOf(srv, c)))
    /\ mobs' = [mobs EXCEPT !.hist[c].from = <<>>,
                            !.hist[c].firstRcpt = <<>>,
                            !.call = MultiCall(c, "Reset", "nil", <<>>)]
    /\ UNCHANGED <<s, last, obs, arg, ret, run>>

NextMulti ==
    \E c \in Conns :
        \/ ConnOpen(c)
        \/ ConnAuth(c)
        \/ ConnMail(c)
        \/ ConnRcpt(c)
        \/ ConnData(c)
        \/ ConnReset(c)

SpecMulti == InitMulti /\ [][NextMulti]_vars

(***************************************************************************)
(* One session, Data taken in steps: the transport makes the next callback *)
(* of a session only when the last has returned.                           *)
(***************************************************************************)
MaxData == 3

InitOrder ==
    /\ s = NewSession
    /\ last = NoCall
    /\ obs = NoObs
    /\ arg = <<>>
    /\ ret = NotCalled
    /\ srv = ServerStart
    /\ mobs = NoMultiObs
    /\ run = NoRun

StepRcpt ==
    /\ run.pc = "idle"
    /\ Len(s.to) < MaxRcpt
    /\ \E to \in Recipients : s' = Rcpt(s, to)
    /\ UNCHANGED <<last, obs, arg, ret, srv, mobs, run>>

StepReset ==
    /\ run.pc = "idle"
    /\ s' = Reset(s)
    /\ UNCHANGED <<last, obs, arg, ret, srv, mobs, run>>

\* Data is called with a body that is read whole: without a recipient it
\* returns at once, else it calls forwardToAPI and the HTTP exchange starts
StepDataBegin ==
    /\ run.pc = "idle"
    /\ run.k < MaxData
    /\ LET id == run.k + 1
       IN  run' = IF NoRecipients(s)
                  THEN [run EXCEPT !.k = id,
                            !.log = @ \o <<Event("begin", id), Event("reject", id)>>]
                  ELSE [run EXCEPT !.k = id, !.pc = "forwarding",
                            !.inflight = @ \cup {id},
                            !.log = Append(@, Event("begin", id))]
    /\ UNCHANGED <<s, last, obs, arg, ret, srv, mobs>>

\* the exchange with the API ends: a response, an error or the timeout
StepExchangeEnds ==
    /\ \E id \in run.inflight :
        run' = [run EXCEPT !.inflight = @ \ {id},
                           !.log = Append(@, Event("deliver", id))]
    /\ UNCHANGED <<s, last, obs, arg, ret, srv, mobs>>

\* forwardToAPI has returned and Data returns its error
StepDataReturn ==
    /\ run.pc = "forwarding"
    /\ ForwardReturned(run)
    /\ run' = [run EXCEPT !.pc = "idle", !.log = Append(@, Event("return", run.k))]
    /\ UNCHANGED <<s, last, obs, arg, ret, srv, mobs>>

NextOrder ==
    StepRcpt \/ StepReset \/ StepDataBegin \/ StepExchangeEnds \/ StepDataReturn

SpecOrder == InitOrder /\ [][NextOrder]_vars

(***************************************************************************)
(* One session whose usernames and envelope-froms are drawn from many      *)
(* names; every body is read whole and every delivery answered with 200.   *)
(***************************************************************************)
MaxLabelNameLen == 1

LabelNames ==
    StringsUpTo(NameAlphabet, MaxLabelNameLen)
        \cup {NameMyApp, NameTwenty, NameTwentyOne, NameLongMixed, NameAccented}

LabelAuth ==
    /\ \E username \in LabelNames :
        /\ s' = Auth(s, username)
        /\ last' = Call("Auth", <<>>, "nil", <<>>, <<>>)
    /\ obs' = [obs EXCEPT !.authed = TRUE]
    /\ UNCHANGED <<arg, ret, srv, mobs, run>>

LabelMail ==
    /\ \E from \in LabelNames :
        /\ s' = Mail(s, from)
        /\ last' = Call("Mail", <<>>, "nil", <<>>, <<>>)
    /\ UNCHANGED <<obs, arg, ret, srv, mobs, run>>

LabelRcpt ==
    /\ s.to = <<>>
    /\ s' = Rcpt(s, RcptA)
    /\ last' = Call("Rcpt", <<>>, "nil", <<>>, <<>>)
    /\ UNCHANGED <<obs, arg, ret, srv, mobs, run>>

LabelData ==
    /\ \E r \in MultiStreams :
        \E res \in Data(s, r, [kind |-> "response", status |-> StatusOK]) :
            /\ s' = res.s
            /\ last' = Call("Data", <<>>, res.err, res.calls, res.sent)
    /\ UNCHANGED <<obs, arg, ret, srv, mobs, run>>

LabelReset ==
    /\ s' = Reset(s)
    /\ last' = Call("Reset", <<>>, "nil", <<>>, <<>>)
    /\ UNCHANGED <<obs, arg, ret, srv, mobs, run>>

NextLabel == LabelAuth \/ LabelMail \/ LabelRcpt \/ LabelData \/ LabelReset

SpecLabel == Init /\ [][NextLabel]_vars

(***************************************************************************)
(* The reference the claims give for the sanitizer                         *)
(***************************************************************************)
RECURSIVE RefKeep(_, _)
\* reference: walk the input once, keeping the lowercased characters of
\* [a-z0-9-] until room characters are kept
RefKeep(name, room) ==
    IF name = <<>> \/ room = 0 THEN <<>>
    ELSE LET c == ToLowerChar(Head(name))
         IN  IF c \in AllowedChars
             THEN <<c>> \o RefKeep(Tail(name), room - 1)
             ELSE RefKeep(Tail(name), room)

RefSanitize(name) ==
    IF RefKeep(name, 20) = <<>> THEN <<"a", "p", "p">> ELSE RefKeep(name, 20)

(***************************************************************************)
(* Claims about the session                                                *)
(***************************************************************************)
DataCalled == last.op = "Data"

\* the Data call reached forwardToAPI
Delivered == DataCalled /\ last.calls # <<>>

\* the delivery call meets no error and a 200 response
ApiSucceeds(api) == api.kind = "response" /\ api.status = 200

\* C1: a Data call whose body stream is longer than MaxEmailSize returns an
\* error and makes no delivery attempt.
C1_OversizedBodyRejected ==
    (DataCalled /\ last.in.r.size > MaxEmailSize)
        => (last.err # "nil" /\ last.calls = <<>> /\ last.sent = <<>>)

\* a body one byte over the limit has been cut at the limit and delivered,
\* and Data returned nil
C1_Witness ==
    /\ DataCalled
    /\ last.in.r.size = MaxEmailSize + 1
    /\ last.in.r.errAt = NoErrAt
    /\ last.err = "nil"
    /\ Len(last.sent) = 1

\* C2: a Data call that reads its body without error on a session with a
\* recipient calls forwardToAPI exactly once, sends at most one HTTP request,
\* and returns nil exactly when that call met no error and a 200 response.
C2_OneDeliveryAndItsResult ==
    (DataCalled /\ last.err # "read" /\ obs.firstRcpt # <<>>)
        => /\ Len(last.calls) = 1
           /\ Len(last.sent) <= 1
           /\ (last.err = "nil" <=> ApiSucceeds(last.in.api))

\* a delivery that met a 500 response made Data fail
C2_Witness ==
    /\ DataCalled
    /\ obs.firstRcpt # <<>>
    /\ last.in.api = [kind |-> "response", status |-> 500]
    /\ Len(last.calls) = 1
    /\ last.err = "status"

\* C3: a Data call with no Rcpt since the session was made or last Reset
\* returns an error and makes no delivery attempt.
C3_NoRecipientsNoDelivery ==
    (DataCalled /\ obs.firstRcpt = <<>>)
        => (last.err # "nil" /\ last.calls = <<>> /\ last.sent = <<>>)

\* after a Reset, a readable body and a working API, Data fails for the
\* missing recipient
C3_Witness ==
    /\ DataCalled
    /\ obs.firstRcpt = <<>>
    /\ obs.resets > 0
    /\ ApiSucceeds(last.in.api)
    /\ last.err = "no recipients"

\* C4: the recipient of a delivery is the address of the first Rcpt since
\* the session was made or last Reset; every Rcpt is accepted and appends
\* its address to the list.
C4_FirstRecipientIsTarget ==
    /\ [](Delivered => obs.firstRcpt = <<last.calls[1].to>>)
    /\ [][last'.op = "Rcpt" =>
            (last'.err = "nil" /\ s'.to = Append(s.to, last'.in))]_vars

\* a delivery on a session with two different recipients
C4_Witness ==
    /\ Delivered
    /\ Len(s.to) >= 2
    /\ s.to[1] # s.to[2]

\* C5: after a failed Data, a Mail, a Rcpt and a Data that follow one another
\* on the session, the Data with a body stream that does not fail and a
\* delivery call that succeeds, end in success and one delivery.
C5_UsableAfterFailedData ==
    (/\ DataCalled
     /\ obs.recovery = 3
     /\ last.in.r.errAt = NoErrAt
     /\ ApiSucceeds(last.in.api))
        => (last.err = "nil" /\ Len(last.calls) = 1 /\ Len(last.sent) = 1)

\* such a Data has succeeded, the recipient of the failed transaction still
\* on the list
C5_Witness ==
    /\ DataCalled
    /\ obs.recovery = 3
    /\ last.err = "nil"
    /\ Len(s.to) >= 2

RECURSIVE LocalPart(_)
\* the text before the first @
LocalPart(addr) ==
    IF addr = <<>> \/ Head(addr) = "@" THEN <<>>
    ELSE <<Head(addr)>> \o LocalPart(Tail(addr))

\* the label the claim gives a delivery
ExpectedLabel ==
    IF obs.authed THEN RefSanitize(obs.authName)
    ELSE IF s.from # <<>> THEN RefSanitize(LocalPart(s.from))
    ELSE <<"a", "p", "p">>

\* C6: the label of a delivery is the label stored by Auth if Auth has run,
\* else the sanitized local part of the envelope-from if one is set, else
\* "app"; the label Auth stored stays whatever Mail follows.
C6_LabelPriority ==
    /\ Delivered => last.calls[1].appName = ExpectedLabel
    /\ obs.authed => s.appName = RefSanitize(obs.authName)

\* a delivery under the label of Auth though the envelope-from would give
\* another
C6_Witness ==
    /\ Delivered
    /\ obs.authed
    /\ s.from # <<>>
    /\ last.calls[1].appName # RefSanitize(LocalPart(s.from))

\* C7: Reset empties the envelope-from and the recipient list and leaves
\* appName and authUser as they are; once Auth has run, a delivery carries
\* its label however many Resets came since.
C7_ResetKeepsLabel ==
    /\ [][last'.op = "Reset" =>
            /\ s'.from = <<>>
            /\ s'.to = <<>>
            /\ s'.appName = s.appName
            /\ s'.authUser = s.authUser]_vars
    /\ []((Delivered /\ obs.authed)
            => last.calls[1].appName = RefSanitize(obs.authName))

\* a delivery under the label of Auth, two Resets after it
C7_Witness ==
    /\ Delivered
    /\ obs.authed
    /\ obs.resets = 2
    /\ obs.authName = NameMyApp
    /\ last.calls[1].appName = <<"m", "y", "a", "p", "p", "1", "2", "3">>

(***************************************************************************)
(* Claims about the sanitizer and the walker                               *)
(***************************************************************************)
\* C8: sanitizeAppName(name) is the reference (lowercase, strip everything
\* outside [a-z0-9-], keep the first 20, "app" when nothing is left);
\* "MyApp_123!" gives "myapp123"; an empty or all-disallowed input gives "app".
C8_SanitizeIsReference ==
    ret # NotCalled =>
        /\ ret[1] = RefSanitize(arg)
        /\ (arg = NameMyApp => ret[1] = <<"m", "y", "a", "p", "p", "1", "2", "3">>)
        /\ ((\A i \in DOMAIN arg : ToLowerChar(arg[i]) \notin AllowedChars)
                => ret[1] = <<"a", "p", "p">>)

\* a name with more than 20 allowed characters, disallowed ones among its
\* first 20, has been sanitized and cut
C8_Witness ==
    /\ ret # NotCalled
    /\ arg = NameLongMixed
    /\ Len(ret[1]) = 20
    /\ ret[1] # SubSeq(ToLower(arg), 1, 20)

\* str holds sub
Contains(str, sub) ==
    \E i \in 1..(Len(str) - Len(sub) + 1) : SubSeq(str, i, i + Len(sub) - 1) = sub

\* a part whose Content-Disposition starts with "attachment"
IsAttachment(part) == HasPrefix(part.disp, S_attachment)

RECURSIVE WithoutAttachments(_)
\* the entity with every attachment part taken out, at every depth
WithoutAttachments(entity) ==
    [entity EXCEPT !.kids =
        LET kept == SelectSeq(entity.kids, LAMBDA k : ~IsAttachment(k))
        IN  [i \in DOMAIN kept |-> WithoutAttachments(kept[i])]]

\* C9: an attachment part gives nothing to the text, the html or the image
\* map: the result is a result for the message without its attachment parts.
C9_AttachmentsContributeNothing ==
    (ret # NotCalled /\ ~MessageOf(arg).parseErr)
        => ret[1] \in parseEmail([MessageOf(arg) EXCEPT
                                    !.entity = WithoutAttachments(@)])

\* the html that refers to cid:a carries the data URI of an image part sent
\* as an attachment
C9_Witness ==
    /\ ret # NotCalled
    /\ arg.shape = MultipartShape(<<LeafShape("HtmlRefA"), LeafShape("ImageAttached")>>)
    /\ ret[1].html = <<"<">> \o DataURI(ImagePng, ImageAttached.body) \o <<">">>

RECURSIVE InlineImageIds(_)
RECURSIVE InlineImageIdsFrom(_, _)
\* the content-ids the part loop of entity, from its i-th part on, and the
\* calls below it put into an image map
InlineImageIdsFrom(entity, i) ==
    IF i > Len(entity.kids) \/ entity.kids[i].nextErr THEN {}
    ELSE LET part == entity.kids[i]
             here == IF IsInlineImage(part)
                     THEN IF part.readErr THEN {} ELSE {Trim(part.cid, {"<", ">"})}
                     ELSE IF IsWalked(part) THEN InlineImageIds(part)
                     ELSE {}
         IN  here \cup InlineImageIdsFrom(entity, i + 1)

\* the content-ids some call of the traversal put into an image map
InlineImageIds(entity) ==
    IF /\ ~HeaderContentType(entity).err
       /\ HasPrefix(HeaderContentType(entity).mediaType, S_multipart)
       /\ ~entity.mrNil
    THEN InlineImageIdsFrom(entity, 1)
    ELSE {}

\* C10: the html of a traversal holds no cid:<id> for a content-id <id> that
\* an inline-image part of the traversal put into the image map.
C10_NoResolvableCidLeft ==
    (ret # NotCalled /\ ~MessageOf(arg).parseErr)
        => \A id \in InlineImageIds(MessageOf(arg).entity) :
                ~Contains(ret[1].html, S_cid \o id)

\* the image lies in a nested multipart next to the html part: its content-id
\* was put into the map of the nested call and cid:a is still in the html
C10_Witness ==
    /\ ret # NotCalled
    /\ arg.shape = MultipartShape(<<LeafShape("HtmlRefA"),
                                    MultipartShape(<<LeafShape("ImageA")>>)>>)
    /\ <<"a">> \in InlineImageIds(MessageOf(arg).entity)
    /\ Contains(ret[1].html, S_cid \o <<"a">>)

(***************************************************************************)
(* Claims about the merge, the fallbacks and the dispatch of the walker    *)
(***************************************************************************)
\* extractBodyParts has returned ret[1]
WalkCalled == ret # NotCalled /\ "subject" \notin DOMAIN ret[1]

\* parseEmail has returned ret[1]
ParseCalled == ret # NotCalled /\ "subject" \in DOMAIN ret[1]

\* the root entity of the message drawn
Root == MessageOf(arg).entity

\* the entity is walked as a multipart
IsMultipartEntity(entity) ==
    /\ ~HeaderContentType(entity).err
    /\ HasPrefix(HeaderContentType(entity).mediaType, S_multipart)
    /\ ~entity.mrNil

RECURSIVE PartsRead(_, _)
\* the parts NextPart hands out from the i-th call on, up to io.EOF or the
\* first error
PartsRead(entity, i) ==
    IF i > Len(entity.kids) \/ entity.kids[i].nextErr THEN <<>>
    ELSE <<entity.kids[i]>> \o PartsRead(entity, i + 1)

\* the children the traversal recurses into, in document order
ChildrenWalked(entity) ==
    SelectSeq(PartsRead(entity, 1),
              LAMBDA part : ~IsInlineImage(part) /\ ~IsAttachment(part))

RECURSIVE FirstTextLastHtml(_)
\* for every choice of the children's results: the text of the first child
\* with a non-empty text and the html of the last child with a non-empty html
FirstTextLastHtml(children) ==
    IF children = <<>> THEN {[text |-> <<>>, html |-> <<>>]}
    ELSE {[text |-> IF h.text # <<>> THEN h.text ELSE t.text,
           html |-> IF t.html # <<>> THEN t.html ELSE h.html] :
            h \in extractBodyParts(Head(children)),
            t \in FirstTextLastHtml(Tail(children))}

RECURSIVE ImagesRead(_)
\* the image map the inline-image parts among parts leave
ImagesRead(parts) ==
    IF parts = <<>> THEN EmptyMap
    ELSE LET part == parts[Len(parts)]
             before == ImagesRead(SubSeq(parts, 1, Len(parts) - 1))
         IN  IF IsInlineImage(part) /\ ~part.readErr
             THEN MapPut(before, Trim(part.cid, {"<", ">"}),
                         DataURI(HeaderContentType(part).mediaType, part.body))
             ELSE before

\* a readable text/plain part that is no attachment and has a body
IsPlainTextPart(part) ==
    /\ HeaderContentType(part) = [mediaType |-> S_textPlain, err |-> FALSE]
    /\ ~IsAttachment(part) /\ ~part.readErr /\ ~part.nextErr
    /\ part.body # <<>>

\* C11: the text a multipart returns is the text of its first child with a
\* non-empty text, its html the html of its last child with a non-empty html
\* (with the cid references of its own image map rewritten), never a
\* concatenation; a message of two text/plain parts has the first part's
\* content as its normalized text.
C11_FirstTextLastHtml ==
    /\ (WalkCalled /\ IsMultipartEntity(Root))
            => \E m \in FirstTextLastHtml(ChildrenWalked(Root)) :
                    /\ ret[1].text = m.text
                    /\ ret[1].html \in
                            RewriteCids(m.html, ImagesRead(PartsRead(Root, 1)))
    /\ (/\ ParseCalled /\ ~MessageOf(arg).parseErr
         /\ IsMultipartEntity(Root)
         /\ Len(Root.kids) >= 2
         /\ IsPlainTextPart(Root.kids[1]) /\ IsPlainTextPart(Root.kids[2]))
            => ret[1].text = TrimSpace(Root.kids[1].body)

\* a multipart of two text/plain parts and an html part has returned the
\* first text, not the two texts joined, and the html
C11_Witness ==
    /\ WalkCalled
    /\ arg.shape = MultipartShape(<<LeafShape("TextBye"), LeafShape("TextHello"),
                                    LeafShape("HtmlRefA")>>)
    /\ ret[1].text = TextBye.body
    /\ ret[1].html = HtmlRefA.body

\* the entity is a text/html leaf
IsHtmlLeaf(entity) ==
    HeaderContentType(entity) = [mediaType |-> S_textHTML, err |-> FALSE]

RECURSIVE OnlyHtml(_)
\* every leaf the traversal recurses into is a text/html leaf
OnlyHtml(entity) ==
    IF IsMultipartEntity(entity)
    THEN \A i \in DOMAIN ChildrenWalked(entity) : OnlyHtml(ChildrenWalked(entity)[i])
    ELSE IsHtmlLeaf(entity)

RECURSIVE HasReadableHtml(_)
\* the traversal reaches a text/html leaf whose body is read and is more than
\* white space
HasReadableHtml(entity) ==
    IF IsMultipartEntity(entity)
    THEN \E i \in DOMAIN ChildrenWalked(entity) :
            HasReadableHtml(ChildrenWalked(entity)[i])
    ELSE IsHtmlLeaf(entity) /\ ~entity.readErr /\ TrimSpace(entity.body) # <<>>

\* C12: for a message whose only content is text/html, parseEmail returns the
\* html as html and as text, the html populated when some html part is
\* readable; extractBodyParts itself returns an empty text for it, at the top
\* and so in every nested call.
C12_HtmlPromotedAtTopOnly ==
    /\ (ParseCalled /\ ~MessageOf(arg).parseErr /\ OnlyHtml(Root))
            => /\ ret[1].text = ret[1].html
               /\ HasReadableHtml(Root) => ret[1].html # <<>>
    /\ (WalkCalled /\ OnlyHtml(Root)) => ret[1].text = <<>>

\* an html part inside a nested multipart, and nothing else: parseEmail has
\* returned it as text and as html
C12_Witness ==
    /\ ParseCalled
    /\ arg.shape = MultipartShape(<<MultipartShape(<<LeafShape("HtmlRefA")>>)>>)
    /\ ret[1].html = HtmlRefA.body
    /\ ret[1].text = HtmlRefA.body

(***************************************************************************)
(* More claims about the session                                           *)
(***************************************************************************)
\* C13: a Data call whose body is read without error but is no MIME message,
\* on a session with a recipient, calls forwardToAPI once with the subject
\* No Subject, the whole raw body as text and an empty html, and fails only
\* if that call fails; the session stays open.
C13_UnparsableBodyDelivered ==
    (/\ DataCalled
     /\ last.err # "read"
     /\ last.in.r.msg.parseErr
     /\ obs.firstRcpt # <<>>)
        => /\ Len(last.calls) = 1
           /\ last.calls[1].subject = S_NoSubject
           /\ last.calls[1].text = last.in.r.msg.raw
           /\ last.calls[1].html = <<>>
           /\ (last.err = "nil" <=> ApiSucceeds(last.in.api))
           /\ Open

\* an unparsable body that ends in a line break has been delivered whole and
\* Data returned nil
C13_Witness ==
    /\ DataCalled
    /\ last.in.r.msg = Unparsable
    /\ last.err = "nil"
    /\ Len(last.sent) = 1
    /\ last.sent[1].text = RawGarbage
    /\ TrimSpace(RawGarbage) # RawGarbage

\* the label the claim gives a delivery of connection c, from the callbacks
\* of c alone
ExpectedLabelOf(c) ==
    LET h == mobs.hist[c]
    IN  IF h.authed THEN RefSanitize(h.authName)
        ELSE IF h.from # <<>> THEN RefSanitize(LocalPart(h.from))
        ELSE <<"a", "p", "p">>

\* the envelope-from, recipient list and label of the session of c
Envelope(server, c) ==
    [from |-> SessionOf(server, c).from, to |-> SessionOf(server, c).to,
     appName |-> SessionOf(server, c).appName]

\* C14: with the callbacks of several connections interleaved, a callback of
\* one connection leaves the envelope-from, recipient list and label of every
\* other connection's session as they are; the recipient and label of a
\* delivery are those the callbacks of its own connection give; the backend
\* is never written.
C14_SessionsIsolated ==
    /\ [][\A c \in Conns :
            (srv.conn[c] # NoSession /\ mobs'.call.conn # c)
                => /\ srv'.conn[c] = srv.conn[c]
                   /\ Envelope(srv', c) = Envelope(srv, c)]_vars
    /\ []((mobs.call.op = "Data" /\ mobs.call.calls # <<>>)
            => /\ <<mobs.call.calls[1].to>> = mobs.hist[mobs.call.conn].firstRcpt
               /\ mobs.call.calls[1].appName = ExpectedLabelOf(mobs.call.conn))
    /\ [][srv'.backend = srv.backend]_vars

\* two sessions with different labels, senders and recipients, and a delivery
\* of the first under its own
C14_Witness ==
    /\ srv.conn["c1"] # NoSession /\ srv.conn["c2"] # NoSession
    /\ mobs.call.conn = "c1" /\ mobs.call.op = "Data" /\ mobs.call.calls # <<>>
    /\ mobs.hist["c2"].authed /\ ~mobs.hist["c1"].authed
    /\ SessionOf(srv, "c1").from = SenderBob /\ SessionOf(srv, "c2").from = SenderBare
    /\ SessionOf(srv, "c1").to = <<RcptA>> /\ SessionOf(srv, "c2").to = <<RcptB>>
    /\ mobs.call.calls[1].to = RcptA
    /\ mobs.call.calls[1].appName = <<"b", "o", "b">>

RECURSIVE RefRewrite(_, _)
\* reference: html read once from left to right, every cid:<id> with <id> a
\* key of images (the longest such <id>) replaced by the data URI of <id>
RefRewrite(html, images) ==
    IF html = <<>> THEN <<>>
    ELSE LET ids == {id \in DOMAIN images : HasPrefix(html, S_cid \o id)}
         IN  IF ids = {} THEN <<Head(html)>> \o RefRewrite(Tail(html), images)
             ELSE LET id == CHOOSE x \in ids : \A y \in ids : Len(y) <= Len(x)
                  IN  images[id]
                        \o RefRewrite(SubSeq(html, Len(S_cid \o id) + 1, Len(html)),
                                      images)

\* C15: the html a multipart returns is its merged html with every cid:<id>
\* replaced by the data URI of exactly that <id>, whatever the order in which
\* the content-ids of the image map are processed, also when one content-id
\* is a prefix of another.
C15_RewriteOrderIndependent ==
    (WalkCalled /\ IsMultipartEntity(Root))
        => \E m \in FirstTextLastHtml(ChildrenWalked(Root)) :
                ret[1].html = RefRewrite(m.html, ImagesRead(PartsRead(Root, 1)))

\* content-ids a and ab, the html refers to ab: the reference was rewritten
\* with the data URI of a, followed by the letter b
C15_Witness ==
    /\ WalkCalled
    /\ arg.shape = MultipartShape(<<LeafShape("HtmlRefAB"), LeafShape("ImageA"),
                                    LeafShape("ImageAB")>>)
    /\ ret[1].html = <<"[">> \o DataURI(ImagePng, ImageA.body) \o <<"b", "]">>

RECURSIVE Tolerated(_)
\* the message as the claim has it read: a part that failed contributes
\* nothing (an empty body, no image), every other part stays where it is
Tolerated(entity) ==
    LET kept == SelectSeq(entity.kids,
                    LAMBDA k : ~k.nextErr /\ ~(IsInlineImage(k) /\ k.readErr))
    IN  [entity EXCEPT
            !.body = IF entity.readErr THEN <<>> ELSE @,
            !.readErr = FALSE,
            !.kids = [i \in DOMAIN kept |-> Tolerated(kept[i])]]

RECURSIVE ToleratedUpToError(_)
\* the message as the part loop reads it: a part with a well-formed
\* Content-Type whose body cannot be read contributes nothing, one with a
\* malformed Content-Type the bytes read before the failure, and a multipart
\* ends before the first part for which NextPart failed
ToleratedUpToError(entity) ==
    LET read == PartsRead(entity, 1)
        kept == SelectSeq(read, LAMBDA k : ~(IsInlineImage(k) /\ k.readErr))
    IN  [entity EXCEPT
            !.body = IF entity.readErr /\ ~entity.ctErr THEN <<>> ELSE @,
            !.readErr = FALSE,
            !.kids = [i \in DOMAIN kept |-> ToleratedUpToError(kept[i])]]

RECURSIVE HasHtmlLeaf(_)
\* the tree holds a text/html leaf
HasHtmlLeaf(entity) ==
    IF entity.kids = <<>> THEN entity.ct = S_textHTML /\ ~entity.ctErr
    ELSE \E i \in DOMAIN entity.kids : HasHtmlLeaf(entity.kids[i])

\* C17: for an entity that is no multipart and whose body is read,
\* extractBodyParts returns ("", body) when the media type is exactly
\* text/html and (body, "") in every other case: text/plain, any other media
\* type, an absent or a malformed Content-Type; so the html of a traversal is
\* non-empty only if the tree holds a text/html leaf.
C17_LeafDispatch ==
    /\ (WalkCalled /\ Root.kids = <<>> /\ ~HasPrefix(Root.ct, S_multipart)
                   /\ (Root.readErr => Root.ctErr))
            => IF Root.ct = S_textHTML /\ ~Root.ctErr
               THEN ret[1] = [text |-> <<>>, html |-> Root.body]
               ELSE ret[1] = [text |-> Root.body, html |-> <<>>]
    /\ (WalkCalled /\ ret[1].html # <<>>) => HasHtmlLeaf(Root)

\* an image/png entity without Content-Id has been returned as text
C17_Witness ==
    /\ WalkCalled
    /\ arg.shape = LeafShape("ImageNoCid")
    /\ Root.ct = ImagePng
    /\ ret[1] = [text |-> ImageNoCid.body, html |-> <<>>]

(***************************************************************************)
(* Claims about the order of deliveries, the frame of Data and the label   *)
(***************************************************************************)
\* C18: the deliveries of a session end in the order of their Data calls; a
\* delivery lies between the call and the return of its Data call, so it
\* ends before any later Data call begins.
C18_DeliveriesInDataOrder ==
    \A j \in DOMAIN run.log :
        /\ run.log[j].ev = "deliver" =>
                /\ \A i \in 1..(j - 1) :
                        /\ run.log[i].ev = "deliver" => run.log[i].id < run.log[j].id
                        /\ run.log[i].ev = "begin" => run.log[i].id <= run.log[j].id
                /\ \E i \in 1..(j - 1) : run.log[i] = Event("begin", run.log[j].id)
        /\ run.log[j].ev = "return" =>
                \E i \in 1..(j - 1) : run.log[i] = Event("deliver", run.log[j].id)

\* two Data calls, each with its delivery before its return, then a third
\* begun
C18_Witness ==
    /\ Len(run.log) >= 7
    /\ SubSeq(run.log, 1, 7) =
            <<Event("begin", 1), Event("deliver", 1), Event("return", 1),
              Event("begin", 2), Event("deliver", 2), Event("return", 2),
              Event("begin", 3)>>

\* C19: Data leaves the session as it is, whatever it returns; the recipient
\* list changes only by Rcpt, which appends, and by Reset, which empties it;
\* so a delivery goes to the head of the list, the first Rcpt since the
\* session was made or Reset, also when that Rcpt belongs to an earlier
\* transaction.
C19_DataLeavesSession ==
    /\ [][last'.op = "Data" => s' = s]_vars
    /\ [][s'.to # s.to =>
            \/ last'.op = "Reset" /\ s'.to = <<>>
            \/ last'.op = "Rcpt" /\ s'.to = Append(s.to, last'.in)]_vars
    /\ [](Delivered =>
            /\ last.calls[1].to = s.to[1]
            /\ obs.firstRcpt = <<s.to[1]>>)

\* no Reset was ever made: after a Data that failed, a Mail, a Rcpt of a new
\* address and a Data, the delivery went to the recipient of the earlier
\* transaction
C19_Witness ==
    /\ Delivered
    /\ obs.recovery = 3
    /\ ~obs.authed /\ obs.resets = 0
    /\ s.to = <<RcptA, RcptB>>
    /\ last.calls[1].to = RcptA

\* a label: 1 to 20 characters of [a-z0-9-]
IsLabel(str) ==
    /\ Len(str) >= 1
    /\ Len(str) <= 20
    /\ \A i \in DOMAIN str :
            str[i] \in Range(Lower) \cup Range(Digits) \cup {"-"}

\* C20: the label of every delivery is a label (1 to 20 characters of
\* [a-z0-9-]); the stored label is empty while Auth has not run and a label
\* afterwards, and once not empty it never becomes empty; sanitizing the
\* stored or the delivered label again gives the same label.
C20_LabelWellFormed ==
    /\ [](Delivered =>
            /\ IsLabel(last.calls[1].appName)
            /\ sanitizeAppName(last.calls[1].appName) = last.calls[1].appName)
    /\ [](IF obs.authed
          THEN IsLabel(s.appName) /\ sanitizeAppName(s.appName) = s.appName
          ELSE s.appName = <<>>)
    /\ [][s.appName # <<>> => s'.appName # <<>>]_vars

\* a username of 28 characters, 20 of them allowed after the cut: the label
\* stored and delivered has 20 characters
C20_Witness ==
    /\ Delivered
    /\ s.authUser = NameLongMixed
    /\ Len(last.calls[1].appName) = 20
    /\ last.calls[1].appName = s.appName

====
